---- MODULE Spec2Model ----
(***************************************************************************)
(* reddit-background: the image selection and deduplication pipeline of    *)
(* background/reddit_background.py.                                        *)
(*                                                                         *)
(* Strings are sequences of one-character strings, so that the string      *)
(* operations of the code (splitext, substring test, the trailing-digit    *)
(* regular expression, str/int conversion, concatenation) are computed as  *)
(* the code computes them.  A directory is a function from the filenames   *)
(* it holds to the content hash (md5) of each file.                        *)
(*                                                                         *)
(* The model covers the default configuration of Desktop.fetch_backgrounds *)
(* (image_scaling is not 'fit', no imprint position), in which the         *)
(* fit_to_desktop and imprint_title branches are not taken.                *)
(***************************************************************************)
EXTENDS Integers, Sequences, FiniteSets, TLC

VARIABLES
    dir,            \* display download directory: filename -> md5 of the file
    scratch,        \* /tmp: filename -> md5 of the file
    last,           \* record of the latest _images_different call
    pc,             \* position of Desktop.fetch_backgrounds
    chooser,        \* get_image_chooser(): "random" | "bestmatch"
    images,         \* the candidate list, as chooser.sort() left it
    idx,            \* number of candidates the for loop has taken
    count,          \* fetch_backgrounds: count
    result_images,  \* fetch_backgrounds: result_images
    image_count,    \* fetch_backgrounds: the argument image_count
    posts,          \* Subreddit.fetch_images: data['data']['children']
    pending,        \* indexes of the submitted futures not yet collected
    fimages,        \* Subreddit.fetch_images: images
    fpc,            \* position of Subreddit.fetch_images
    tasks,          \* state of the _collect_urls task of each post
    scoring,        \* a list under BestMatchImageChooser.sort and its history
    naming,         \* a title and URL, and the names Image derives from them
    imgur,          \* an imgur link, the API's answers and what they resolve to
    mpc,            \* position of main()
    base,           \* get_download_directory(): display number of each
                    \* 'Desktop n' folder -> the set of the files it holds
    BG_SETTING,     \* the global _BG_SETTING ("unset": never assigned)
    bg_setting,     \* display number -> Desktop.bg_setting
    desktops,       \* main: desktops, the numbers of the displays to serve
    cur,            \* main: number of desktops the for loop has taken
    IMAGE_COUNT,    \* the global _IMAGE_COUNT
    todo,           \* requests of the current desktop, the one in flight first
    remote,         \* what the remote end does with the request in flight
    activity,       \* number of network requests this run has issued
    removed         \* whether _clear_download_directory has removed a file

vars == <<dir, scratch, last, pc, chooser, images, idx, count, result_images,
          image_count, posts, pending, fimages, fpc, tasks, scoring, naming,
          imgur, mpc, base, BG_SETTING, bg_setting, desktops, cur, IMAGE_COUNT,
          todo, remote, activity, removed>>

dmVars == <<dir, scratch, last>>
pipeVars == <<pc, chooser, images, idx, count, result_images, image_count>>
fetchVars == <<posts, pending, fimages, fpc, tasks>>
pureVars == <<scoring, naming, imgur>>
mainVars == <<mpc, base, BG_SETTING, bg_setting, desktops, cur, IMAGE_COUNT,
              todo, remote, activity, removed>>

----------------------------------------------------------------------------
(* Bounds *)

\* most files a display directory holds in the duplicate-manager runs
MaxFiles == 3
\* longest candidate list a listing yields in the pipeline runs
MaxPool == 3
\* largest image_count asked of fetch_backgrounds
MaxWanted == 2
\* most posts of a listing page, and most entries of one album
MaxPosts == 2
MaxAlbum == 2
\* number of displays of the system
NumDisplays == 2

----------------------------------------------------------------------------
(* Strings *)

Digits == <<"0", "1", "2", "3", "4", "5", "6", "7", "8", "9">>

IsDigit(c) == \E i \in 1..10 : Digits[i] = c

DigitVal(c) == (CHOOSE i \in 1..10 : Digits[i] = c) - 1

\* int(s) for a non-empty string of decimal digits
RECURSIVE StrToInt(_)
StrToInt(s) ==
    IF Len(s) = 0 THEN 0
    ELSE 10 * StrToInt(SubSeq(s, 1, Len(s) - 1)) + DigitVal(s[Len(s)])

\* str(n) for n >= 0, as '{}'.format(n) writes it
RECURSIVE IntToStr(_)
IntToStr(n) ==
    IF n < 10 THEN <<Digits[n + 1]>>
    ELSE IntToStr(n \div 10) \o <<Digits[(n % 10) + 1]>>

\* Python's  sub in s  for strings
Contains(sub, s) ==
    \E i \in 0..(Len(s) - Len(sub)) : SubSeq(s, i + 1, i + Len(sub)) = sub

\* index of the last "." of p, 0 when there is none (p.rfind('.') + 1)
RFindDot(p) ==
    IF \E i \in 1..Len(p) : p[i] = "."
    THEN CHOOSE i \in 1..Len(p) :
             p[i] = "." /\ \A j \in (i + 1)..Len(p) : p[j] # "."
    ELSE 0

\* os.path.splitext on a filename without directory separators: the
\* extension starts at the last dot, unless only dots precede that dot
splitext(p) ==
    LET dotIndex == RFindDot(p)
    IN  IF dotIndex > 0 /\ \E i \in 1..(dotIndex - 1) : p[i] # "."
        THEN <<SubSeq(p, 1, dotIndex - 1), SubSeq(p, dotIndex, Len(p))>>
        ELSE <<p, <<>>>>

\* number of trailing decimal digits of s
RECURSIVE TrailingDigitCount(_)
TrailingDigitCount(s) ==
    IF Len(s) > 0 /\ IsDigit(s[Len(s)])
    THEN 1 + TrailingDigitCount(SubSeq(s, 1, Len(s) - 1))
    ELSE 0

\* re.match('.*?([0-9]+)$', key_title): int(group(1)) when it matches,
\* else 0 (the code appends 0 when there is no match)
image_number(key_title) ==
    LET k == TrailingDigitCount(key_title)
    IN  IF k > 0
        THEN StrToInt(SubSeq(key_title, Len(key_title) - k + 1, Len(key_title)))
        ELSE 0

SetMax(S) == CHOOSE m \in S : \A x \in S : x <= m

----------------------------------------------------------------------------
(* Files *)

EmptyDir == [f \in {} |-> "h0"]

WriteFile(d, name, h) ==
    [f \in (DOMAIN d) \cup {name} |-> IF f = name THEN h ELSE d[f]]

RemoveFile(d, name) == [f \in (DOMAIN d) \ {name} |-> d[f]]

\* Desktop.download_directory, as a string
download_directory == <<"D">>

\* '{}/{}'.format(self.download_directory, filename)
PathIn(filename) == download_directory \o <<"/">> \o filename

\* a mutant of downloaded_images: the index cached when the Desktop was
\* made (the directory was empty then) instead of a fresh listing
downloaded_images_cached(d) == EmptyDir

\* Desktop.downloaded_images: a property that lists and hashes the
\* directory again on every access
downloaded_images(d) == d

----------------------------------------------------------------------------
(* _download_to_directory(image.url, '/tmp', image.filename)               *)
(* outcome "ok":        urlretrieve writes the bytes of the URL to path    *)
(* outcome "HTTPError": urlretrieve raises HTTPError before it opens path; *)
(*                      the error is logged, then open(path) raises        *)
(*                      FileNotFoundError unless a file is already there   *)
(* outcome "URLError":  urlretrieve raises URLError or socket.error, which *)
(*                      nothing here catches                               *)

Outcomes == {"ok", "HTTPError", "URLError"}

download_to_directory(tmp, filename, content, outcome) ==
    CASE outcome = "ok" ->
            [raised |-> "none", scratch |-> WriteFile(tmp, filename, content)]
      [] outcome = "HTTPError" ->
            IF filename \in DOMAIN tmp
            THEN [raised |-> "none", scratch |-> tmp]
            ELSE [raised |-> "FileNotFoundError", scratch |-> tmp]
      [] OTHER ->
            [raised |-> "URLError", scratch |-> tmp]

----------------------------------------------------------------------------
(* Desktop._images_different                                               *)

\* the existing files whose stem contains the candidate's stem
MatchingKeys(d, filename) ==
    {k \in DOMAIN downloaded_images(d) :
        Contains(splitext(filename)[1], splitext(k)[1])}

\* those of them whose digest differs from the candidate's
DifferingKeys(d, filename, hash_md5) ==
    {k \in MatchingKeys(d, filename) : downloaded_images(d)[k] # hash_md5}

\* duplicate_not_found after the loop over the keys: set as soon as one
\* matching file's digest differs
duplicate_not_found(d, filename, hash_md5) ==
    DifferingKeys(d, filename, hash_md5) # {}

\* a mutant of new_filename: the counter is not advanced
new_filename_same_digit(d, filename, hash_md5) ==
    LET image_title == splitext(filename)[1]
        ext == splitext(filename)[2]
        image_numbers ==
            {image_number(splitext(k)[1]) : k \in DifferingKeys(d, filename, hash_md5)}
        digit == SetMax(image_numbers)
    IN  IF digit = 0
        THEN image_title \o <<"1">> \o ext
        ELSE image_title \o IntToStr(digit) \o ext

\* new_filename, when duplicate_not_found
new_filename(d, filename, hash_md5) ==
    LET image_title == splitext(filename)[1]
        ext == splitext(filename)[2]
        image_numbers ==
            {image_number(splitext(k)[1]) : k \in DifferingKeys(d, filename, hash_md5)}
        digit == SetMax(image_numbers)
    IN  IF digit = 0
        THEN image_title \o <<"1">> \o ext
        ELSE image_title \o IntToStr(digit + 1) \o ext

\* the boolean the first branch (filename not yet downloaded) returns
new_result == FALSE

\* the whole call.  kind names the branch taken: "New" (filename not in
\* downloaded_images), "Renamed" (duplicate_not_found), "Duplicate"
\* (neither), "Raised" (the download raised).  index is the set of keys of
\* self.downloaded_images as the call read it ({} when the call raised
\* before reading it).
images_different(d, tmp, filename, content, outcome) ==
    LET dl == download_to_directory(tmp, filename, content, outcome)
        hash_md5 == dl.scratch[filename]
    IN  IF dl.raised # "none"
        THEN [kind |-> "Raised", raised |-> dl.raised, path |-> <<>>,
              result |-> FALSE, dir |-> d, scratch |-> dl.scratch,
              index |-> {}]
        ELSE IF filename \notin DOMAIN downloaded_images(d)
        THEN [kind |-> "New", raised |-> "none", path |-> PathIn(filename),
              result |-> new_result,
              dir |-> WriteFile(d, filename, hash_md5),
              scratch |-> RemoveFile(dl.scratch, filename),
              index |-> DOMAIN downloaded_images(d)]
        ELSE IF duplicate_not_found(d, filename, hash_md5)
        THEN LET nf == new_filename(d, filename, hash_md5)
             IN  [kind |-> "Renamed", raised |-> "none", path |-> PathIn(nf),
                  result |-> TRUE,
                  dir |-> WriteFile(d, nf, hash_md5),
                  scratch |-> RemoveFile(dl.scratch, filename),
                  index |-> DOMAIN downloaded_images(d)]
        ELSE [kind |-> "Duplicate", raised |-> "none", path |-> <<>>,
              result |-> FALSE, dir |-> d, scratch |-> dl.scratch,
              index |-> DOMAIN downloaded_images(d)]

----------------------------------------------------------------------------
(* Inputs *)

\* slug filenames of the candidates: a stem, the same stem followed by a
\* digit, and a stem that contains the first one
Filenames ==
    { <<"a", ".", "j">>, <<"a", "1", ".", "j">>, <<"b", "a", ".", "j">> }

\* content hashes of the bytes a URL may serve
Hashes == {"h1", "h2", "h3"}

NoCall ==
    [called |-> FALSE, filename |-> <<>>, content |-> "h0", outcome |-> "ok",
     pre_dir |-> EmptyDir, index |-> {},
     kind |-> "Raised", raised |-> "none", path |-> <<>>, result |-> FALSE]

CallRecord(d, filename, content, outcome, r) ==
    [called |-> TRUE, filename |-> filename, content |-> content,
     outcome |-> outcome, pre_dir |-> d, index |-> r.index,
     kind |-> r.kind, raised |-> r.raised, path |-> r.path, result |-> r.result]

----------------------------------------------------------------------------
(* SpecDM: any sequence of _images_different calls on one display          *)
(* directory, which starts empty (as _clear_download_directory leaves it). *)

InitIdle ==
    /\ pc = "idle" /\ chooser = "random" /\ images = <<>> /\ idx = 0
    /\ count = 0 /\ result_images = <<>> /\ image_count = 0

InitFetchIdle ==
    /\ posts = <<>> /\ pending = {} /\ fimages = <<>> /\ fpc = "idle"
    /\ tasks = <<>>

\* no list has been given to BestMatchImageChooser.sort yet
NoScoring ==
    [n |-> 0, desktop |-> [width |-> 1, height |-> 1], seed |-> <<>>,
     input |-> <<>>, list |-> <<>>, first |-> <<>>]

\* no Image has been asked for its names yet
NoNaming ==
    [called |-> FALSE, title |-> <<>>, url |-> <<>>, display_title |-> <<>>,
     filename |-> <<>>]

\* no imgur link has been resolved yet
NoResolve ==
    [called |-> FALSE, first |-> [kind |-> "status", data |-> <<>>],
     second |-> [kind |-> "status", data |-> <<>>],
     album |-> [kind |-> "status", data |-> <<>>],
     images |-> <<>>, raised |-> "none"]

InitPure ==
    /\ scoring = NoScoring /\ naming = NoNaming /\ imgur = NoResolve

\* the download directory without any 'Desktop n' folder
NoFolders == [d \in {} |-> {}]

\* main() has not been entered: no global is assigned, a Desktop is made
\* with bg_setting 'fill'
InitMain ==
    /\ mpc = "start" /\ base = NoFolders /\ BG_SETTING = "unset"
    /\ bg_setting = [d \in 1..NumDisplays |-> "fill"]
    /\ desktops = <<>> /\ cur = 0 /\ IMAGE_COUNT = 0 /\ todo = <<>>
    /\ remote = "responds" /\ activity = 0 /\ removed = FALSE

\* the state main() is in after _clear_download_directory: the display
\* directory is empty, nothing is in flight
Init ==
    /\ dir = EmptyDir /\ scratch = EmptyDir /\ last = NoCall
    /\ InitIdle /\ InitFetchIdle /\ InitPure /\ InitMain

Classify ==
    \E filename \in Filenames, content \in Hashes, outcome \in Outcomes :
        LET r == images_different(dir, scratch, filename, content, outcome)
        IN  /\ Cardinality(DOMAIN r.dir) <= MaxFiles
            /\ dir' = r.dir
            /\ scratch' = r.scratch
            /\ last' = CallRecord(dir, filename, content, outcome, r)
            /\ UNCHANGED <<pipeVars, fetchVars, pureVars, mainVars>>

NextDM == Classify

SpecDM == Init /\ [][NextDM]_vars

\* the same calls, for candidates that all carry one filename: every call
\* after the first repeats the filename of the call before it
ClassifySameName ==
    \E filename \in Filenames, content \in Hashes, outcome \in Outcomes :
        LET r == images_different(dir, scratch, filename, content, outcome)
        IN  /\ last.called => filename = last.filename
            /\ Cardinality(DOMAIN r.dir) <= MaxFiles
            /\ dir' = r.dir
            /\ scratch' = r.scratch
            /\ last' = CallRecord(dir, filename, content, outcome, r)
            /\ UNCHANGED <<pipeVars, fetchVars, pureVars, mainVars>>

NextSameName == ClassifySameName

SpecSameName == Init /\ [][NextSameName]_vars

----------------------------------------------------------------------------
(* BestMatchImageChooser: the scores, in fixed point (SCALE stands for 1.0; *)
(* the code computes in floats)                                            *)

SCALE == 1000

WEIGHT_ASPECT_RATIO == SCALE
WEIGHT_RESOLUTION == SCALE
WEIGHT_JITTER == SCALE \div 4
WEIGHT_REDDIT_SCORE == SCALE

\* math.log1p(n) * 1000, rounded, for the raw scores the model draws
LogTable == <<0, 693, 1099, 1386>>

log1p(n) == (LogTable[n + 1] * SCALE) \div 1000

SeqMin(s) == CHOOSE m \in {s[i] : i \in 1..Len(s)} : \A i \in 1..Len(s) : m <= s[i]
SeqMax(s) == CHOOSE m \in {s[i] : i \in 1..Len(s)} : \A i \in 1..Len(s) : m >= s[i]

score_reddit_score(image, log_lo_score, log_hi_score) ==
    IF log_hi_score > log_lo_score
    THEN ((log1p(image.raw_reddit_score) - log_lo_score) * SCALE)
             \div (log_hi_score - log_lo_score)
    ELSE 0

score_aspect_ratio(image, desktop) ==
    IF image.width * desktop.height > desktop.width * image.height
    THEN (desktop.width * image.height * SCALE) \div (image.width * desktop.height)
    ELSE (image.width * desktop.height * SCALE) \div (desktop.width * image.height)

\* a mutant of _score_resolution: the ratio, not capped at 1.0
score_resolution_uncapped(image, desktop) ==
    (image.width * image.height * SCALE) \div (desktop.width * desktop.height)

score_resolution(image, desktop) ==
    LET image_pixels == image.width * image.height
        desktop_pixels == desktop.width * desktop.height
    IN  IF image_pixels > desktop_pixels
        THEN SCALE
        ELSE (image_pixels * SCALE) \div desktop_pixels

\* random.random(): the values of [0, 1) the model draws
Jitters == {0, SCALE \div 2}

\* the loop body of sort() for one image: its weighted parts and their mean
Scored(image, desktop, jitter, log_lo_score, log_hi_score) ==
    LET aspect_ratio_score ==
            (WEIGHT_ASPECT_RATIO * score_aspect_ratio(image, desktop)) \div SCALE
        resolution_score ==
            (WEIGHT_RESOLUTION * score_resolution(image, desktop)) \div SCALE
        jitter_score == (WEIGHT_JITTER * jitter) \div SCALE
        reddit_score ==
            (WEIGHT_REDDIT_SCORE
                * score_reddit_score(image, log_lo_score, log_hi_score)) \div SCALE
    IN  [image EXCEPT !.score =
            (aspect_ratio_score + resolution_score + jitter_score + reddit_score)
                \div 4]

\* a mutant of the insertion: x goes before the elements of equal score
RECURSIVE InsertByScore_unstable(_, _)
InsertByScore_unstable(sorted, x) ==
    IF Len(sorted) = 0 THEN <<x>>
    ELSE IF sorted[Len(sorted)].score < x.score THEN Append(sorted, x)
    ELSE Append(InsertByScore_unstable(SubSeq(sorted, 1, Len(sorted) - 1), x),
                sorted[Len(sorted)])

\* insert x after the last element whose score is not above x's
RECURSIVE InsertByScore(_, _)
InsertByScore(sorted, x) ==
    IF Len(sorted) = 0 THEN <<x>>
    ELSE IF sorted[Len(sorted)].score <= x.score THEN Append(sorted, x)
    ELSE Append(InsertByScore(SubSeq(sorted, 1, Len(sorted) - 1), x),
                sorted[Len(sorted)])

\* images.sort(key=operator.attrgetter('score')): ascending and stable
RECURSIVE SortByScore(_)
SortByScore(s) ==
    IF Len(s) = 0 THEN <<>>
    ELSE InsertByScore(SortByScore(SubSeq(s, 1, Len(s) - 1)), s[Len(s)])

\* a mutant of sort(): the Reddit scores are normalised against the score
\* of the first image of the list, not the lowest of the list
bestmatch_sort_lo_of_first(pool, desktop, jitters) ==
    LET raw_reddit_scores == [i \in 1..Len(pool) |-> pool[i].raw_reddit_score]
        log_lo_score == log1p(raw_reddit_scores[1])
        log_hi_score == log1p(SeqMax(raw_reddit_scores))
    IN  SortByScore([i \in 1..Len(pool) |->
            Scored(pool[i], desktop, jitters[i], log_lo_score, log_hi_score)])

\* BestMatchImageChooser.sort() on a non-empty list, the jitter drawn for
\* each image given
bestmatch_sort(pool, desktop, jitters) ==
    LET raw_reddit_scores == [i \in 1..Len(pool) |-> pool[i].raw_reddit_score]
        log_lo_score == log1p(SeqMin(raw_reddit_scores))
        log_hi_score == log1p(SeqMax(raw_reddit_scores))
    IN  SortByScore([i \in 1..Len(pool) |->
            Scored(pool[i], desktop, jitters[i], log_lo_score, log_hi_score)])

SeqsUpTo(S, n) == UNION {[1..k -> S] : k \in 0..n}

\* RandomImageChooser.sort(): random.shuffle leaves any permutation
Shuffles(pool) ==
    LET n == Len(pool)
    IN  {[i \in 1..n |-> pool[p[i]]] :
            p \in {q \in [1..n -> 1..n] : \A i, j \in 1..n : q[i] = q[j] => i = j}}

----------------------------------------------------------------------------
(* SpecScore: BestMatchImageChooser.sort on a list of Image objects, and   *)
(* again on the list it left (sort reorders the list it is given in place). *)
(* Each Image carries id, its position in the list first given, so that    *)
(* objects of equal looks stay apart.  The seed of the jitter source is    *)
(* the sequence of values random.random() yields after random.seed: the    *)
(* loop of sort() draws the i-th of them for the i-th image of the list.   *)

\* most images of a scored list, and most sorts of one list
MaxBatch == 3
MaxSorts == 2

ScoreLooks ==
    { [width |-> 2, height |-> 1, raw_reddit_score |-> 1],
      [width |-> 1, height |-> 1, raw_reddit_score |-> 0],
      [width |-> 4, height |-> 2, raw_reddit_score |-> 3],
      [width |-> 1, height |-> 2, raw_reddit_score |-> 0] }

ScoreDesktops == {[width |-> 2, height |-> 1], [width |-> 1, height |-> 1]}

Batch(looks) ==
    [i \in 1..Len(looks) |->
        [id |-> i, width |-> looks[i].width, height |-> looks[i].height,
         raw_reddit_score |-> looks[i].raw_reddit_score, score |-> 0]]

\* chooser.sort(images) on a non-empty list of fresh Image objects
SortCall ==
    /\ scoring.n = 0
    /\ \E looks \in SeqsUpTo(ScoreLooks, MaxBatch) \ {<<>>},
          desktop \in ScoreDesktops :
        \E seed \in [1..Len(looks) -> Jitters] :
            LET sorted == bestmatch_sort(Batch(looks), desktop, seed)
            IN  scoring' = [n |-> 1, desktop |-> desktop, seed |-> seed,
                            input |-> Batch(looks), list |-> sorted,
                            first |-> sorted]
    /\ UNCHANGED <<dmVars, pipeVars, fetchVars, naming, imgur, mainVars>>

\* chooser.sort(images) again on the list the previous sort left, the jitter
\* source started from the same seed
Resort ==
    /\ scoring.n \in 1..(MaxSorts - 1)
    /\ scoring' = [scoring EXCEPT
            !.n = @ + 1,
            !.input = scoring.list,
            !.list = bestmatch_sort(scoring.list, scoring.desktop, scoring.seed)]
    /\ UNCHANGED <<dmVars, pipeVars, fetchVars, naming, imgur, mainVars>>

NextScore == SortCall \/ Resort

SpecScore == Init /\ [][NextScore]_vars

----------------------------------------------------------------------------
(* Desktop.fetch_backgrounds                                               *)

\* the display the pipeline runs for
TheDesktop == [width |-> 2, height |-> 1]

\* width, height and raw Reddit score of the candidates
Looks ==
    { [width |-> 2, height |-> 1, raw_reddit_score |-> 1],
      [width |-> 1, height |-> 1, raw_reddit_score |-> 0] }

PoolHashes == {"h1", "h2"}

\* Image objects as Subreddit.fetch_images builds them: score 0.0,
\* file_path None ("None" here; '' is <<>>)
Candidates ==
    { [filename |-> f, content |-> h, width |-> l.width, height |-> l.height,
       raw_reddit_score |-> l.raw_reddit_score, score |-> 0, file_path |-> "None"] :
        f \in Filenames, h \in PoolHashes, l \in Looks }

Exceptions == {"ValueError", "URLError", "FileNotFoundError"}

\* random_subreddit.fetch_images() failed in _urlopen and returned [], or
\* returned the candidates of the listing; then chooser.sort()
FetchAndSort ==
    /\ pc = "idle"
    /\ \E n \in 0..MaxWanted, c \in {"random", "bestmatch"},
          pool \in SeqsUpTo(Candidates, MaxPool) :
        /\ image_count' = n
        /\ chooser' = c
        /\ \/ /\ c = "random"
              /\ images' \in Shuffles(pool)
              /\ pc' = "select"
           \/ /\ c = "bestmatch" /\ pool = <<>>
              \* min() of an empty list
              /\ images' = pool
              /\ pc' = "ValueError"
           \/ /\ c = "bestmatch" /\ pool # <<>>
              /\ \E jitters \in [1..Len(pool) -> Jitters] :
                    images' = bestmatch_sort(pool, TheDesktop, jitters)
              /\ pc' = "select"
    /\ idx' = 0 /\ count' = 0 /\ result_images' = <<>>
    /\ UNCHANGED <<dmVars, fetchVars, pureVars, mainVars>>

\* a mutant of the loop: without  if count >= image_count: break
Select_without_break ==
    /\ pc = "select"
    /\ idx < Len(images)
    /\ \E outcome \in Outcomes :
        LET image == images[idx + 1]
            r == images_different(dir, scratch, image.filename, image.content, outcome)
        IN  /\ dir' = r.dir
            /\ scratch' = r.scratch
            /\ last' = CallRecord(dir, image.filename, image.content, outcome, r)
            /\ IF r.raised # "none"
               THEN /\ pc' = r.raised
                    /\ UNCHANGED <<idx, count, result_images>>
               ELSE /\ pc' = pc
                    /\ idx' = idx + 1
                    /\ count' = count + 1
                    /\ result_images' =
                          Append(result_images, [image EXCEPT !.file_path = r.path])
    /\ UNCHANGED <<chooser, images, image_count, fetchVars, pureVars, mainVars>>

\* one turn of  for image in images:  that does not break.  _images_different
\* raises no URLOpenError (only _urlopen does), so the except clause never
\* runs and what the download raises leaves fetch_backgrounds
Select ==
    /\ pc = "select"
    /\ idx < Len(images)
    /\ count < image_count
    /\ \E outcome \in Outcomes :
        LET image == images[idx + 1]
            r == images_different(dir, scratch, image.filename, image.content, outcome)
        IN  /\ dir' = r.dir
            /\ scratch' = r.scratch
            /\ last' = CallRecord(dir, image.filename, image.content, outcome, r)
            /\ IF r.raised # "none"
               THEN /\ pc' = r.raised
                    /\ UNCHANGED <<idx, count, result_images>>
               ELSE /\ pc' = pc
                    /\ idx' = idx + 1
                    /\ count' = count + 1
                    /\ result_images' =
                          Append(result_images, [image EXCEPT !.file_path = r.path])
    /\ UNCHANGED <<chooser, images, image_count, fetchVars, pureVars, mainVars>>

\* the loop ends (list exhausted, or  count >= image_count: break) and
\* result_images is returned
Return ==
    /\ pc = "select"
    /\ idx = Len(images) \/ count >= image_count
    /\ pc' = "done"
    /\ UNCHANGED <<dmVars, chooser, images, idx, count, result_images,
                   image_count, fetchVars, pureVars, mainVars>>

Next == FetchAndSort \/ Select \/ Return

Spec == Init /\ [][Next]_vars

----------------------------------------------------------------------------
(* Subreddit.fetch_images and Subreddit._collect_urls                      *)
(*                                                                         *)
(* A post (child['data']) is a record: kind "reddit" (no 'imgur' in its    *)
(* url), "single" (ImgurWallpaper.is_single_image holds) or "album"; and   *)
(* entries, what building the Image of each image it names does: "ok", or  *)
(* "bad" when it raises (a KeyError on the post or the entry, a request    *)
(* that raises, or the AttributeError of the branch for an empty album     *)
(* entry, imgur_url.full_title on a str).                                  *)

EntryStates == {"ok", "bad"}

Posts ==
    [kind : {"reddit", "single"}, entries : [1..1 -> EntryStates]]
    \cup [kind : {"album"}, entries : SeqsUpTo(EntryStates, MaxAlbum)]

\* number of leading entries that build their Image
RECURSIVE OkPrefix(_)
OkPrefix(entries) ==
    IF Len(entries) = 0 \/ entries[1] = "bad" THEN 0
    ELSE 1 + OkPrefix(Tail(entries))

\* a mutant of _collect_urls: an error empties the list
collect_urls_all_or_nothing(i, data) ==
    IF OkPrefix(data.entries) < Len(data.entries) THEN <<>>
    ELSE [j \in 1..Len(data.entries) |-> [post |-> i, entry |-> j]]

\* _collect_urls(data) for post number i: images is appended to until an
\* exception, which the except clause logs; then images is returned
collect_urls(i, data) ==
    [j \in 1..OkPrefix(data.entries) |-> [post |-> i, entry |-> j]]

\* _urlopen raised URLOpenError: warn and return []
ListingFails ==
    /\ fpc = "idle"
    /\ fpc' = "returned"
    /\ UNCHANGED <<posts, pending, fimages, tasks, dmVars, pipeVars, pureVars, mainVars>>

\* ThreadPoolExecutor(max_workers=5)
max_workers == 5

Running == {i \in 1..Len(tasks) : tasks[i] = "running"}
Queued == {i \in 1..Len(tasks) : tasks[i] = "queued"}

\* the listing is read and one task per child is submitted to the pool
Submit ==
    /\ fpc = "idle"
    /\ \E ps \in SeqsUpTo(Posts, MaxPosts) :
        /\ posts' = ps
        /\ pending' = 1..Len(ps)
        /\ tasks' = [i \in 1..Len(ps) |-> "queued"]
    /\ fimages' = <<>>
    /\ fpc' = "collect"
    /\ UNCHANGED <<dmVars, pipeVars, pureVars, mainVars>>

\* a free worker thread takes the task at the head of the pool's queue
StartTask ==
    /\ Queued # {}
    /\ Cardinality(Running) < max_workers
    /\ LET i == CHOOSE k \in Queued : \A m \in Queued : k <= m
       IN  tasks' = [tasks EXCEPT ![i] = "running"]
    /\ UNCHANGED <<posts, pending, fimages, fpc, dmVars, pipeVars, pureVars, mainVars>>

\* _collect_urls returns in some worker thread: its future is done
FinishTask ==
    /\ \E i \in Running : tasks' = [tasks EXCEPT ![i] = "done"]
    /\ UNCHANGED <<posts, pending, fimages, fpc, dmVars, pipeVars, pureVars, mainVars>>

\* a mutant of Collect: a future is taken whether done or not, and one that
\* is not done gives nothing
Collect_without_waiting ==
    /\ fpc = "collect"
    /\ \E i \in pending :
        /\ fimages' = fimages \o (IF tasks[i] = "done"
                                  THEN collect_urls(i, posts[i]) ELSE <<>>)
        /\ pending' = pending \ {i}
    /\ UNCHANGED <<posts, fpc, tasks, dmVars, pipeVars, pureVars, mainVars>>

\* for future in as_completed(futures): the futures are yielded as they
\* complete, in any order; future.result() is the list _collect_urls returned
Collect ==
    /\ fpc = "collect"
    /\ \E i \in pending :
        /\ tasks[i] = "done"
        /\ fimages' = fimages \o collect_urls(i, posts[i])
        /\ pending' = pending \ {i}
    /\ UNCHANGED <<posts, fpc, tasks, dmVars, pipeVars, pureVars, mainVars>>

\* as_completed is exhausted and the with block is left (shutdown(wait=True));
\* return images
FetchReturn ==
    /\ fpc = "collect"
    /\ pending = {}
    /\ fpc' = "returned"
    /\ UNCHANGED <<posts, pending, fimages, tasks, dmVars, pipeVars, pureVars, mainVars>>

NextFetch ==
    ListingFails \/ Submit \/ StartTask \/ FinishTask \/ Collect \/ FetchReturn

SpecFetch == Init /\ [][NextFetch]_vars

----------------------------------------------------------------------------
(* SpecImgur: ImgurWallpaper and the imgur branch of _collect_urls.        *)
(*                                                                         *)
(* What the imgur API does with one request is an answer, a record of its  *)
(* kind and data:                                                          *)
(*   "refused"   requests.get raises (no connection, timeout)              *)
(*   "status"    a status code other than 200                              *)
(*   "garbled"   status 200, the body is not JSON: response.json() raises  *)
(*   "bare"      status 200, a JSON object without the key 'success'       *)
(*   "rejected"  status 200, 'success' false                               *)
(*   "ok"        status 200, 'success' true, 'data' as described below     *)
(* The data of an image answer is one entry; of an album answer, the       *)
(* entries of 'images'.  An entry has its id and tells which keys it       *)
(* holds: "all", or all but 'link', or all but 'views'.                    *)

AnswerKinds == {"refused", "status", "garbled", "bare", "rejected", "ok"}

ImgurIds == {"x", "y"}

ImgurEntries == [id : ImgurIds, keys : {"all", "nolink", "noviews"}]

FailedAnswers == [kind : AnswerKinds \ {"ok"}, data : {<<>>}]

ImageAnswers == FailedAnswers \cup [kind : {"ok"}, data : [1..1 -> ImgurEntries]]

AlbumAnswers ==
    FailedAnswers \cup [kind : {"ok"}, data : SeqsUpTo(ImgurEntries, MaxAlbum)]

\* None as a JSON value
NoJson == [kind |-> "None", data |-> <<>>]

\* request_from_api: the exception that leaves it ("none": it returns) and
\* the value it returns
request_from_api(answer) ==
    IF answer.kind = "refused" THEN [raised |-> "ConnectionError", value |-> NoJson]
    ELSE IF answer.kind = "status" THEN [raised |-> "none", value |-> NoJson]
    ELSE IF answer.kind = "garbled" THEN [raised |-> "ValueError", value |-> NoJson]
    ELSE [raised |-> "none", value |-> answer]

\* load_from_api: value is <<>> for None, else the one entry of 'data'
load_from_api(answer) ==
    LET r == request_from_api(answer)
    IN  IF r.raised # "none" THEN [raised |-> r.raised, value |-> <<>>]
        ELSE IF r.value = NoJson THEN [raised |-> "none", value |-> <<>>]
        ELSE IF r.value.kind = "bare" THEN [raised |-> "KeyError", value |-> <<>>]
        ELSE IF r.value.kind = "rejected" THEN [raised |-> "none", value |-> <<>>]
        ELSE [raised |-> "none", value |-> r.value.data]

\* load_imgur_album: value is the list result; dicts['link'] raises KeyError
\* on an entry without 'link'
load_imgur_album(answer) ==
    LET r == request_from_api(answer)
    IN  IF r.raised # "none" THEN [raised |-> r.raised, value |-> <<>>]
        ELSE IF r.value = NoJson THEN [raised |-> "none", value |-> <<>>]
        ELSE IF r.value.kind = "bare" THEN [raised |-> "KeyError", value |-> <<>>]
        ELSE IF r.value.kind = "rejected" THEN [raised |-> "none", value |-> <<>>]
        ELSE IF \E j \in 1..Len(r.value.data) : r.value.data[j].keys = "nolink"
        THEN [raised |-> "KeyError", value |-> <<>>]
        ELSE [raised |-> "none", value |-> r.value.data]

is_single_image(answer) ==
    LET r == load_from_api(answer)
    IN  [raised |-> r.raised, value |-> r.value # <<>>]

\* number of leading entries that hold every key Image(...) is built from
RECURSIVE CompletePrefix(_)
CompletePrefix(entries) ==
    IF Len(entries) = 0 \/ entries[1].keys # "all" THEN 0
    ELSE 1 + CompletePrefix(Tail(entries))

\* the Image objects of the entries: image_id=image_data['id']
ImagesOf(entries) == [j \in 1..Len(entries) |-> [image_id |-> entries[j].id]]

\* _collect_urls(data) with 'imgur' in data['url']: the images it returns
\* and the exception an ImgurWallpaper method raised to it ("none": none
\* did); first and second are the answers to the image/ request of
\* is_single_image and to that of the load_from_api call after it, album the
\* answer to the album/ request.  An exception ends the try block; a KeyError
\* of image_data['link'] or image_data['views'] does so too.
collect_imgur(first, second, album) ==
    LET single == is_single_image(first)
        loaded == load_from_api(second)
        entries == load_imgur_album(album)
    IN  IF single.raised # "none" THEN [images |-> <<>>, raised |-> single.raised]
        ELSE IF single.value
        THEN IF loaded.raised # "none"
             THEN [images |-> <<>>, raised |-> loaded.raised]
             ELSE [images |-> ImagesOf(SubSeq(loaded.value, 1,
                                              CompletePrefix(loaded.value))),
                   raised |-> "none"]
        ELSE IF entries.raised # "none"
        THEN [images |-> <<>>, raised |-> entries.raised]
        ELSE [images |-> ImagesOf(SubSeq(entries.value, 1, CompletePrefix(entries.value))),
              raised |-> "none"]

\* _collect_urls on a post whose url holds 'imgur'; an image that is
\* described twice is described the same way
Resolve ==
    /\ ~imgur.called
    /\ \E first \in ImageAnswers, second \in ImageAnswers, album \in AlbumAnswers :
        /\ first.kind = "ok" /\ second.kind = "ok" => first = second
        /\ LET r == collect_imgur(first, second, album)
           IN  imgur' = [called |-> TRUE, first |-> first, second |-> second,
                         album |-> album, images |-> r.images, raised |-> r.raised]
    /\ UNCHANGED <<dmVars, pipeVars, fetchVars, scoring, naming, mainVars>>

NextImgur == Resolve

SpecImgur == Init /\ [][NextImgur]_vars

----------------------------------------------------------------------------
(* SpecName: Image.display_title, slugify and Image.filename               *)

\* longest title drawn, not counting the padding that brings a title to
\* the length where display_title starts to truncate
MaxTitle == 3

TITLE_MAX_LENGTH == 64

Ellipsis == <<".", ".", ".">>

\* a mutant of display_title: the ellipsis is added to TITLE_MAX_LENGTH
\* characters of the title
display_title_cut_at_max(title) ==
    IF Len(title) <= TITLE_MAX_LENGTH THEN title
    ELSE SubSeq(title, 1, TITLE_MAX_LENGTH) \o Ellipsis

display_title(title) ==
    IF Len(title) <= TITLE_MAX_LENGTH THEN title
    ELSE SubSeq(title, 1, TITLE_MAX_LENGTH - 3) \o Ellipsis

\* the characters titles and URLs are drawn from, by the classes slugify
\* tells apart: \w is a letter, a digit or "_"; \s is " "; "é" is a letter
\* outside ASCII that NFKD decomposes into "e" and a combining accent
Lowercase == {"a", "b", "c", "e", "j", "x"}
Uppercase == {"B", "J"}

IsWordChar(c) == c \in Lowercase \/ c \in Uppercase \/ IsDigit(c) \/ c = "_"

IsSpace(c) == c = " "

\* unicodedata.normalize('NFKD', value).encode('ascii', 'ignore')
RECURSIVE ascii_fold(_)
ascii_fold(s) ==
    IF Len(s) = 0 THEN <<>>
    ELSE (IF s[1] = "é" THEN <<"e">> ELSE <<s[1]>>) \o ascii_fold(Tail(s))

\* re.sub('[^\w\s-]', '', value)
remove_non_word(s) ==
    SelectSeq(s, LAMBDA c : IsWordChar(c) \/ IsSpace(c) \/ c = "-")

RECURSIVE lstrip(_)
lstrip(s) == IF Len(s) > 0 /\ IsSpace(s[1]) THEN lstrip(Tail(s)) ELSE s

RECURSIVE rstrip(_)
rstrip(s) ==
    IF Len(s) > 0 /\ IsSpace(s[Len(s)]) THEN rstrip(SubSeq(s, 1, Len(s) - 1)) ELSE s

strip(s) == lstrip(rstrip(s))

lower(s) ==
    [i \in 1..Len(s) |->
        IF s[i] = "B" THEN "b" ELSE IF s[i] = "J" THEN "j" ELSE s[i]]

\* s without its leading run of hyphens and spaces
RECURSIVE SkipRun(_)
SkipRun(s) ==
    IF Len(s) > 0 /\ (s[1] = "-" \/ IsSpace(s[1])) THEN SkipRun(Tail(s)) ELSE s

\* re.sub('[-\s]+', '-', value)
RECURSIVE collapse(_)
collapse(s) ==
    IF Len(s) = 0 THEN <<>>
    ELSE IF s[1] = "-" \/ IsSpace(s[1]) THEN <<"-">> \o collapse(SkipRun(s))
    ELSE <<s[1]>> \o collapse(Tail(s))

\* a mutant of slugify: without .lower()
slugify_keep_case(value) ==
    collapse(strip(remove_non_word(ascii_fold(value))))

slugify(value) ==
    collapse(lower(strip(remove_non_word(ascii_fold(value)))))

\* what Image.filename appends for the path of the URL: '.' + parts[1] of
\* url_path.rsplit('.', 1), nothing when the path has no dot
url_extension(url_path) ==
    IF RFindDot(url_path) = 0 THEN <<>>
    ELSE <<".">> \o SubSeq(url_path, RFindDot(url_path) + 1, Len(url_path))

image_filename(title, url_path) ==
    slugify(display_title(title)) \o url_extension(url_path)

TitleChars == {"a", "B", "1", " ", "-", "_", "!", "é"}

\* n times "x"
Pad(n) == [i \in 1..n |-> "x"]

\* short titles of every make, and the same behind a padding that brings
\* them to the lengths around TITLE_MAX_LENGTH
Titles ==
    {Pad(n) \o t :
        n \in {0} \cup ((TITLE_MAX_LENGTH - MaxTitle)..TITLE_MAX_LENGTH),
        t \in SeqsUpTo(TitleChars, MaxTitle)}

\* urlparse(self.url).path
UrlPaths ==
    { <<"/", "a", ".", "j">>, <<"/", "a">>, <<"/", "a", ".", "J">>,
      <<"/", "a", ".", "b", "/", "c">> }

\* image.display_title and image.filename of a new Image
Name ==
    /\ ~naming.called
    /\ \E title \in Titles, url_path \in UrlPaths :
        naming' = [called |-> TRUE, title |-> title, url |-> url_path,
                   display_title |-> display_title(title),
                   filename |-> image_filename(title, url_path)]
    /\ UNCHANGED <<dmVars, pipeVars, fetchVars, scoring, imgur, mainVars>>

NextName == Name

SpecName == Init /\ [][NextName]_vars

----------------------------------------------------------------------------
(* SpecMain: one run of main().  The displays are numbered from 1 and the  *)
(* folder 'Desktop n' of the download directory is named by its number n.  *)
(* The download directory itself exists.  The work of fetch_backgrounds is *)
(* reduced to the network requests it issues, one at a time, and the files *)
(* it places: the listing request of fetch_images, a request of            *)
(* ImgurWallpaper for a post that links to imgur, and one download for     *)
(* each image taken.  None of the requests is given a timeout, so what     *)
(* becomes of a request is up to the remote end: it "responds", it         *)
(* "errors" (the request raises), or it "hangs" (the connection is         *)
(* accepted and nothing is ever sent).                                     *)

\* Desktop.download_directory, under the download directory:
\* 'Desktop {}'.format(self.num)
desktop_directory(num) == <<"D", "e", "s", "k", "t", "o", "p", " ">> \o IntToStr(num)

\* a file an earlier run left, and the k-th file this run places
OldFile == <<"o">>
NewFile(k) == <<"n">> \o IntToStr(k)

\* the download directory as earlier runs may have left it
Bases == UNION {[S -> {{}, {OldFile}}] : S \in SUBSET (1..NumDisplays)}

\* the background_setting option of the [default] section of the
\* configuration file, and --background-setting ("unset": not given)
ConfigSettings == {"unset", "scale"}
CliSettings == {"unset", "center"}

Remotes == {"responds", "errors", "hangs"}

\* bg_setting of the desktops after _read_config_file: the else clause of
\* the background_setting option assigns to the variable  desktop, which
\* the loop before it left at the last desktop
after_read_config_file(config_bg) ==
    IF config_bg = "unset" THEN [d \in 1..NumDisplays |-> "fill"]
    ELSE [d \in 1..NumDisplays |-> IF d = NumDisplays THEN config_bg ELSE "fill"]

\* before main() is entered: earlier runs have left the download
\* directory in some state
EarlierRuns ==
    /\ mpc = "start"
    /\ base' \in Bases
    /\ mpc' = "main"
    /\ UNCHANGED <<BG_SETTING, bg_setting, desktops, cur, IMAGE_COUNT, todo,
                   remote, activity, removed, dmVars, pipeVars, fetchVars,
                   pureVars>>

\* get_desktop_config(), then  if get_what(): ... return.  desktop is
\* --desktop (0: all desktops), n the image count, what is --what
GetDesktopConfig ==
    /\ mpc = "main"
    /\ \E config_bg \in ConfigSettings, cli_bg \in CliSettings,
          desktop \in 0..NumDisplays, n \in 0..MaxWanted, what \in BOOLEAN :
        LET setting == IF cli_bg # "unset" THEN cli_bg ELSE config_bg
            selected == IF desktop # 0 THEN <<desktop>>
                        ELSE [i \in 1..NumDisplays |-> i]
        IN  /\ BG_SETTING' = setting
            /\ desktops' = selected
            /\ IMAGE_COUNT' = n
            /\ IF setting = "unset"
               \* desktop.bg_setting = get_background_setting(): NameError
               THEN /\ mpc' = "NameError"
                    /\ bg_setting' = after_read_config_file(config_bg)
               ELSE /\ mpc' = IF what THEN "done" ELSE "clear"
                    /\ bg_setting' =
                          [d \in 1..NumDisplays |->
                              IF \E i \in 1..Len(selected) : selected[i] = d
                              THEN setting
                              ELSE after_read_config_file(config_bg)[d]]
    /\ UNCHANGED <<base, cur, todo, remote, activity, removed, dmVars, pipeVars,
                   fetchVars, pureVars>>

\* _clear_download_directory, as many folders as desktops: os.remove of one
\* file of one folder
ClearFile ==
    /\ mpc = "clear"
    /\ Cardinality(DOMAIN base) = Len(desktops)
    /\ \E d \in DOMAIN base : \E f \in base[d] :
        base' = [base EXCEPT ![d] = @ \ {f}]
    /\ removed' = TRUE
    /\ UNCHANGED <<mpc, BG_SETTING, bg_setting, desktops, cur, IMAGE_COUNT, todo,
                   remote, activity, dmVars, pipeVars, fetchVars, pureVars>>

\* _clear_download_directory, as many folders as desktops: every file of
\* every folder is removed
ClearDone ==
    /\ mpc = "clear"
    /\ Cardinality(DOMAIN base) = Len(desktops)
    /\ \A d \in DOMAIN base : base[d] = {}
    /\ mpc' = "loop"
    /\ UNCHANGED <<base, BG_SETTING, bg_setting, desktops, cur, IMAGE_COUNT, todo,
                   remote, activity, removed, dmVars, pipeVars, fetchVars,
                   pureVars>>

\* _clear_download_directory, another number of folders:
\* shutil.rmtree(dirname); _safe_makedirs(dirname)
ClearTree ==
    /\ mpc = "clear"
    /\ Cardinality(DOMAIN base) # Len(desktops)
    /\ base' = NoFolders
    /\ removed' = (removed \/ \E d \in DOMAIN base : base[d] # {})
    /\ mpc' = "loop"
    /\ UNCHANGED <<BG_SETTING, bg_setting, desktops, cur, IMAGE_COUNT, todo,
                   remote, activity, dmVars, pipeVars, fetchVars, pureVars>>

\* a mutant of NextDesktop: the loop over the desktops does not wait for
\* _clear_download_directory to return
NextDesktop_while_clearing ==
    /\ mpc \in {"clear", "loop"}
    /\ cur < Len(desktops)
    /\ cur' = cur + 1
    /\ todo' = <<"listing">>
    /\ remote' \in Remotes
    /\ activity' = activity + 1
    /\ mpc' = "waiting"
    /\ UNCHANGED <<base, BG_SETTING, bg_setting, desktops, IMAGE_COUNT, removed,
                   dmVars, pipeVars, fetchVars, pureVars>>

\* for desktop in desktops: desktop.fetch_backgrounds(...) enters
\* fetch_images, which opens the listing URL
NextDesktop ==
    /\ mpc = "loop"
    /\ cur < Len(desktops)
    /\ cur' = cur + 1
    /\ todo' = <<"listing">>
    /\ remote' \in Remotes
    /\ activity' = activity + 1
    /\ mpc' = "waiting"
    /\ UNCHANGED <<base, BG_SETTING, bg_setting, desktops, IMAGE_COUNT, removed,
                   dmVars, pipeVars, fetchVars, pureVars>>

\* the loop over the desktops is over and main returns
MainDone ==
    /\ mpc = "loop"
    /\ cur = Len(desktops)
    /\ mpc' = "done"
    /\ UNCHANGED <<base, BG_SETTING, bg_setting, desktops, cur, IMAGE_COUNT, todo,
                   remote, activity, removed, dmVars, pipeVars, fetchVars,
                   pureVars>>

\* the requests left are rest: the first of them is issued, or the desktop
\* is finished
Continue(rest) ==
    /\ todo' = rest
    /\ IF rest = <<>>
       THEN mpc' = "loop" /\ remote' = remote /\ activity' = activity
       ELSE mpc' = "waiting" /\ remote' \in Remotes /\ activity' = activity + 1

\* the downloads fetch_backgrounds may make of a listing: one for each
\* image of the list until the count asked for is reached (main asks for
\* image_count images, or for 1 when image_count is 0)
Pools ==
    LET asked == IF IMAGE_COUNT > 0 THEN IMAGE_COUNT ELSE 1
        most == IF MaxPool < asked THEN MaxPool ELSE asked
    IN  {[i \in 1..k |-> "download"] : k \in 0..most}

\* _urlopen(url) of the listing returns, or raises URLOpenError and
\* fetch_images returns []; a listing with a post that links to imgur has
\* a request of ImgurWallpaper issued for it
ListingResponse ==
    /\ mpc = "waiting"
    /\ todo[1] = "listing"
    /\ remote # "hangs"
    /\ IF remote = "errors" THEN Continue(<<>>)
       ELSE \E rest \in Pools \cup {<<"resolve">>} : Continue(rest)
    /\ UNCHANGED <<base, BG_SETTING, bg_setting, desktops, cur, IMAGE_COUNT,
                   removed, dmVars, pipeVars, fetchVars, pureVars>>

\* requests.get of request_from_api returns or raises (_collect_urls
\* catches what it raises); the images are scored and the downloads begin
ResolveResponse ==
    /\ mpc = "waiting"
    /\ todo[1] = "resolve"
    /\ remote # "hangs"
    /\ \E rest \in Pools : Continue(rest)
    /\ UNCHANGED <<base, BG_SETTING, bg_setting, desktops, cur, IMAGE_COUNT,
                   removed, dmVars, pipeVars, fetchVars, pureVars>>

\* urlretrieve of _download_to_directory returns and _images_different
\* moves the file into the folder of the desktop, which it makes if it is
\* not there; or the download raises, and so do fetch_backgrounds and main
DownloadResponse ==
    /\ mpc = "waiting"
    /\ todo[1] = "download"
    /\ remote # "hangs"
    /\ IF remote = "errors"
       THEN /\ mpc' = "raised"
            /\ UNCHANGED <<base, todo, remote, activity>>
       ELSE /\ LET num == desktops[cur]
                   files == IF num \in DOMAIN base THEN base[num] ELSE {}
               IN  base' = [d \in DOMAIN base \cup {num} |->
                               IF d = num THEN files \cup {NewFile(Len(todo))}
                               ELSE base[d]]
            /\ Continue(Tail(todo))
    /\ UNCHANGED <<BG_SETTING, bg_setting, desktops, cur, IMAGE_COUNT, removed,
                   dmVars, pipeVars, fetchVars, pureVars>>

NextMain ==
    \/ EarlierRuns \/ GetDesktopConfig \/ ClearFile \/ ClearDone \/ ClearTree
    \/ NextDesktop \/ MainDone
    \/ ListingResponse \/ ResolveResponse \/ DownloadResponse

SpecMain == Init /\ [][NextMain]_vars

\* the process of main() is scheduled: a step it can take is taken
SpecMainLive == SpecMain /\ WF_vars(NextMain)

----------------------------------------------------------------------------
(* Claims about Desktop.fetch_backgrounds, checked under Spec              *)

\* C1: a candidate that _images_different classifies as Duplicate is not
\* appended to the returned list and does not increment the accepted count.
C1_DuplicateIsSkipped ==
    [][(idx' = idx + 1 /\ last'.kind = "Duplicate")
          => (result_images' = result_images /\ count' = count)]_vars

\* C2: every candidate of the returned list has a file_path that is neither
\* None nor '' and names a file that exists in the display's directory.
C2_ReturnedFilesExist ==
    pc = "done" =>
        \A i \in 1..Len(result_images) :
            /\ result_images[i].file_path # "None"
            /\ result_images[i].file_path # <<>>
            /\ \E f \in DOMAIN dir : result_images[i].file_path = PathIn(f)

\* C3: with the scoring chooser the returned list is in descending
\* desirability, and a single returned image out of a list that needed no
\* skip is the highest-scoring candidate.
C3_MostDesirableFirst ==
    (pc = "done" /\ chooser = "bestmatch") =>
        /\ \A i, j \in 1..Len(result_images) :
              i < j => result_images[i].score >= result_images[j].score
        /\ (image_count = 1 /\ Len(result_images) = 1 /\ idx = 1) =>
              \A k \in 1..Len(images) : result_images[1].score >= images[k].score

\* C8: when the listing request fails or yields no candidates,
\* fetch_backgrounds returns an empty list, raises nothing and writes no
\* file, whichever chooser is configured.
C8_EmptyListingReturnsEmpty ==
    (pc # "idle" /\ images = <<>>) =>
        /\ pc \in {"select", "done"}
        /\ result_images = <<>>
        /\ dir = EmptyDir

\* C9: a candidate whose download fails is skipped: it is not in the
\* result, does not count, and the loop goes on instead of aborting.
C9_FailedDownloadIsSkipped ==
    [][(pc = "select" /\ last' # last /\ last'.called /\ last'.outcome # "ok")
          => (/\ pc' = "select"
              /\ idx' = idx + 1
              /\ result_images' = result_images
              /\ count' = count)]_vars

\* C18: fetch_backgrounds(image_count) never holds more than image_count
\* images in the list it returns; with image_count = 0 it downloads nothing
\* (no _images_different call, no file in the directory or in /tmp); and
\* once count has reached image_count, or the list is exhausted, no step
\* downloads, classifies or writes a file.
C18_StopsAtWantedCount ==
    /\ [](/\ Len(result_images) <= image_count
          /\ (pc # "idle" /\ image_count = 0) =>
                (~last.called /\ dir = EmptyDir /\ scratch = EmptyDir))
    /\ [][(pc # "idle" /\ (count >= image_count \/ idx = Len(images)))
            => (last' = last /\ dir' = dir /\ scratch' = scratch)]_vars

\* fetch_backgrounds returned its full count with candidates left over
C18_Witness ==
    /\ pc = "done"
    /\ image_count >= 1
    /\ count = image_count
    /\ idx < Len(images)
    /\ last.called

----------------------------------------------------------------------------
(* Claims about Desktop._images_different, checked under SpecDM            *)

\* the latest call downloaded the candidate's bytes and found its filename
\* among the files of the directory
CallOnExistingName ==
    /\ last.called
    /\ last.outcome = "ok"
    /\ last.filename \in DOMAIN last.pre_dir

\* the files, before the latest call, whose stem contains the candidate's
PriorMatches ==
    {k \in DOMAIN last.pre_dir :
        Contains(splitext(last.filename)[1], splitext(k)[1])}

\* C4: when the filename exists and at least one file whose stem contains
\* the candidate's stem has the candidate's hash, the candidate is a
\* Duplicate: nothing is written and it is reported not new, however many
\* other matching files have different hashes.
C4_DuplicateWhenAnyHashEqual ==
    (CallOnExistingName
        /\ \E k \in PriorMatches : last.pre_dir[k] = last.content)
    => (/\ last.kind = "Duplicate"
        /\ last.result = FALSE
        /\ dir = last.pre_dir)

\* stem + N + extension, N one more than the highest numeric suffix among
\* the matching files (no trailing digits counts as 0)
ExpectedVariant ==
    LET n == SetMax({image_number(splitext(k)[1]) : k \in PriorMatches})
    IN  splitext(last.filename)[1] \o IntToStr(n + 1) \o splitext(last.filename)[2]

\* C5: a Renamed-variant (the filename exists and no matching file has the
\* candidate's hash) is stored as stem + N + extension, N one more than the
\* highest numeric suffix among the existing files whose stem contains the
\* candidate's stem; it is a new file, and it is reported new.
C5_RenamedVariantName ==
    (CallOnExistingName
        /\ \A k \in PriorMatches : last.pre_dir[k] # last.content)
    => (/\ last.kind = "Renamed"
        /\ last.result = TRUE
        /\ last.path = PathIn(ExpectedVariant)
        /\ ExpectedVariant \notin DOMAIN last.pre_dir
        /\ dir = WriteFile(last.pre_dir, ExpectedVariant, last.content))

\* C5 witness: a.j, then a.j with other bytes stored as a1.j, then a.j with
\* bytes unlike both stored as a2.j
C5_Witness ==
    /\ CallOnExistingName
    /\ last.filename = <<"a", ".", "j">>
    /\ last.content = "h3"
    /\ last.pre_dir = [f \in {<<"a", ".", "j">>, <<"a", "1", ".", "j">>} |->
                          IF f = <<"a", ".", "j">> THEN "h1" ELSE "h2"]
    /\ last.kind = "Renamed"
    /\ <<"a", "2", ".", "j">> \in DOMAIN dir
    /\ dir[<<"a", "2", ".", "j">>] = "h3"

\* C6: from an empty directory a candidate is placed as New under its own
\* name; the same filename with the same bytes is then a Duplicate and the
\* directory still holds exactly that one file with its name and hash.
C6_RoundTrip ==
    /\ (last.called /\ last.outcome = "ok" /\ last.pre_dir = EmptyDir)
        => (/\ last.kind = "New"
            /\ dir = WriteFile(EmptyDir, last.filename, last.content))
    /\ (last.called /\ last.outcome = "ok"
            /\ last.pre_dir = WriteFile(EmptyDir, last.filename, last.content))
        => (/\ last.kind = "Duplicate"
            /\ dir = last.pre_dir)

\* C6 witness: the second, identical fetch has been classified
C6_Witness ==
    /\ last.called /\ last.outcome = "ok"
    /\ last.pre_dir = WriteFile(EmptyDir, last.filename, last.content)
    /\ last.kind = "Duplicate"
    /\ Cardinality(DOMAIN dir) = 1

\* C7: when no existing file has the candidate's filename, the downloaded
\* file is moved to download_directory/filename and that path is returned
\* with the boolean true; the boolean is false only for a Duplicate.
C7_NewReportedNew ==
    /\ (last.called /\ last.raised = "none"
            /\ last.filename \notin DOMAIN last.pre_dir)
        => (/\ last.path = PathIn(last.filename)
            /\ last.filename \in DOMAIN dir
            /\ last.result = TRUE)
    /\ (last.called /\ last.raised = "none" /\ last.result = FALSE)
        => last.kind = "Duplicate"

\* C25: a call never removes an existing file or replaces its content with
\* different bytes: every file the display directory held before the call
\* is there after it, under the same name with the same content hash,
\* whether the candidate was New, a Duplicate or a Renamed variant.
C25_ExistingFilesKept ==
    last.called =>
        \A f \in DOMAIN last.pre_dir :
            f \in DOMAIN dir /\ dir[f] = last.pre_dir[f]

\* a call that moved a Renamed variant onto a name the directory already
\* held: the name new_filename computes from the differing files only can be
\* the name of a file with the candidate's own bytes
C25_Witness ==
    /\ last.called
    /\ last.kind = "Renamed"
    /\ Cardinality(DOMAIN last.pre_dir) >= 2
    /\ DOMAIN dir = DOMAIN last.pre_dir

\* C26: every file a call moves into the display directory holds the bytes
\* downloaded from the candidate's URL during that call; a failed download
\* never lets a file an earlier call left in the scratch directory be
\* hashed and stored in its place.
C26_PlacedBytesAreDownloaded ==
    (last.called /\ last.kind \in {"New", "Renamed"}) =>
        /\ last.outcome = "ok"
        /\ \E f \in DOMAIN dir : last.path = PathIn(f) /\ dir[f] = last.content

\* C24: starting from an empty display directory, after any sequence of
\* calls for candidates that all have the same filename, no two files of
\* the directory have the same content hash.
C24_NoTwoFilesShareAHash ==
    \A f, g \in DOMAIN dir : f # g => dir[f] # dir[g]

----------------------------------------------------------------------------
(* Claims about Subreddit.fetch_images, checked under SpecFetch            *)

\* the candidates of post i in the returned list, in their order
FromPost(i) == SelectSeq(fimages, LAMBDA c : c.post = i)

\* the post raises while it is resolved
PostFails(i) == \E j \in 1..Len(posts[i].entries) : posts[i].entries[j] = "bad"

\* the entries of post i that come before the first one that raises
BeforeError(i) ==
    {j \in 1..Len(posts[i].entries) :
        \A k \in 1..j : posts[i].entries[k] = "ok"}

\* C10 as claimed: a post whose resolution raises at any point contributes
\* no candidate, and every other post's candidates are returned.
C10_FailedPostContributesNothing ==
    (fpc = "returned") =>
        \A i \in 1..Len(posts) :
            IF PostFails(i)
            THEN FromPost(i) = <<>>
            ELSE Len(FromPost(i)) = Len(posts[i].entries)

\* C10 amended: a post whose resolution raises contributes exactly the
\* candidates built before the error (none when the error comes before the
\* first one); every other post's candidates are all returned, in the
\* post's order, and the fetch returns.
C10_FailedPostContributesPrefix ==
    (fpc = "returned") =>
        \A i \in 1..Len(posts) :
            /\ Len(FromPost(i)) = Cardinality(BeforeError(i))
            /\ \A j \in 1..Len(FromPost(i)) :
                  FromPost(i)[j] = [post |-> i, entry |-> j]
            /\ ~PostFails(i) => Len(FromPost(i)) = Len(posts[i].entries)

\* C10 witness: an album raised after its first image next to a sound post
C10_Witness ==
    /\ fpc = "returned"
    /\ Len(posts) = 2
    /\ \E i \in 1..2 :
        /\ posts[i].kind = "album"
        /\ posts[i].entries = <<"ok", "bad">>
        /\ ~PostFails(3 - i)
        /\ Len(FromPost(i)) = 1
        /\ Len(FromPost(3 - i)) = 1

----------------------------------------------------------------------------
(* Claims about Desktop.downloaded_images, checked under SpecDM            *)

----------------------------------------------------------------------------
(* Claims about BestMatchImageChooser.sort, checked under SpecScore        *)

\* position in list s of the image whose id is k
PosOf(s, k) == CHOOSE i \in 1..Len(s) : s[i].id = k

Ids(s) == [i \in 1..Len(s) |-> s[i].id]

\* C11: after BestMatchImageChooser.sort the list is a permutation of the list
\* it was given (the same images, each once, nothing but their score
\* changed), in non-decreasing order of score, and images of equal score are
\* in the order they had in the list given.
C11_SortedStablePermutation ==
    scoring.n >= 1 =>
        LET given == scoring.input
            left == scoring.list
        IN  /\ Len(left) = Len(given)
            /\ \A i \in 1..Len(given) :
                    \E j \in 1..Len(left) :
                        /\ left[j] = [given[i] EXCEPT !.score = left[j].score]
                        /\ \A k \in 1..Len(left) : left[k].id = given[i].id => k = j
            /\ \A i, j \in 1..Len(left) :
                    i < j =>
                        /\ left[i].score <= left[j].score
                        /\ left[i].score = left[j].score =>
                                PosOf(given, left[i].id) < PosOf(given, left[j].id)

\* a sort that moved an image, with a tie between two images and two
\* images of different scores
C11_Witness ==
    /\ scoring.n >= 1
    /\ Ids(scoring.list) # Ids(scoring.input)
    /\ \E i, j \in 1..Len(scoring.list) :
            i < j /\ scoring.list[i].score = scoring.list[j].score
    /\ \E i, j \in 1..Len(scoring.list) :
            scoring.list[i].score < scoring.list[j].score

\* the four components, before their weights, that the latest sort computed
\* for the i-th image of the list it was given
ComponentsOf(i) ==
    LET given == scoring.input
        raw_reddit_scores == [k \in 1..Len(given) |-> given[k].raw_reddit_score]
    IN  [aspect_ratio |-> score_aspect_ratio(given[i], scoring.desktop),
         resolution |-> score_resolution(given[i], scoring.desktop),
         reddit |-> score_reddit_score(given[i], log1p(SeqMin(raw_reddit_scores)),
                                       log1p(SeqMax(raw_reddit_scores))),
         jitter |-> scoring.seed[i]]

C14_RescoringKeepsOrder ==
    scoring.n = 2 => Ids(scoring.list) = Ids(scoring.first)

\* the second scoring draws for every image the jitter the first drew for
\* it: the image is at a position whose draw equals that of the position
\* it had in the list first given (its id)
SameDraws ==
    \A i \in 1..Len(scoring.input) :
        scoring.seed[i] = scoring.seed[scoring.input[i].id]

\* C14 (amended): scoring again, from the same jitter seed, the list a
\* scoring has left gives the same list, scores and order, whenever the
\* seed's draws give every image the jitter it had in the first scoring
\* (jitter is drawn by position in the list, and the list was reordered).
C14_RescoringKeepsOrderUnderSameDraws ==
    scoring.n = 2 /\ SameDraws => scoring.list = scoring.first

\* a second scoring of a list the first scoring reordered, with draws that
\* differ between positions yet are the same for every image
C14_Witness ==
    /\ scoring.n = 2
    /\ SameDraws
    /\ Ids(scoring.first) # [i \in 1..Len(scoring.first) |-> i]
    /\ \E i, j \in 1..Len(scoring.seed) : scoring.seed[i] # scoring.seed[j]

----------------------------------------------------------------------------
(* Claims about the imgur links, checked under SpecImgur                   *)

AllKeys(entries) == \A j \in 1..Len(entries) : entries[j].keys = "all"

\* C12: an imgur link yields one candidate per image it names: when the
\* single-image request (image/) succeeds with a complete description,
\* exactly one candidate; when it is answered with an error status and the
\* album/ request succeeds with n complete entries, exactly n candidates,
\* in the order of the entries, each with its entry's id.
C12_OneCandidatePerImage ==
    imgur.called =>
        /\ imgur.first.kind = "ok" /\ AllKeys(imgur.first.data) =>
                Len(imgur.images) = 1
        /\ (/\ imgur.first.kind = "status"
            /\ imgur.album.kind = "ok"
            /\ AllKeys(imgur.album.data)) =>
                imgur.images = ImagesOf(imgur.album.data)

\* C13: no method of ImgurWallpaper raises to _collect_urls, whatever the
\* API does with the requests.
C13_ResolverNeverRaises ==
    imgur.called => imgur.raised = "none"

----------------------------------------------------------------------------
(* Claims about the names of an Image, checked under SpecName              *)

\* C16: display_title has at most 64 characters; it is the title when the
\* title has at most 64 characters, and otherwise the first 61 characters of
\* the title followed by '...'.
C16_DisplayTitle ==
    naming.called =>
        /\ Len(naming.display_title) <= 64
        /\ Len(naming.title) <= 64 => naming.display_title = naming.title
        /\ Len(naming.title) > 64 =>
                naming.display_title = SubSeq(naming.title, 1, 61) \o <<".", ".", ".">>

\* a title of more than 64 characters was named: its display title has 64
\* characters and is not the first 64 of the title
C16_Witness ==
    /\ naming.called
    /\ Len(naming.title) > 64
    /\ Len(naming.display_title) = 64
    /\ naming.display_title # SubSeq(naming.title, 1, 64)

\* the part of the filename before what was appended for the URL
Stem == SubSeq(naming.filename, 1,
               Len(naming.filename) - Len(url_extension(naming.url)))

\* the filename is a stem followed by nothing, or by "." and the text after
\* the last dot of the URL path, which holds no further dot
EndsInUrlExtension ==
    LET after_dot == SubSeq(naming.url, RFindDot(naming.url) + 1, Len(naming.url))
    IN  /\ naming.filename =
                Stem \o (IF RFindDot(naming.url) = 0 THEN <<>> ELSE <<".">> \o after_dot)
        /\ \A i \in 1..Len(after_dot) : after_dot[i] # "."

----------------------------------------------------------------------------
(* Claims about the worker tasks of Subreddit.fetch_images, under SpecFetch *)

\* C19: when fetch_images has returned the list of a listing it read, the
\* task of every post is done, and the list holds exactly what the tasks
\* returned: every candidate of collect_urls(i, posts[i]) once, for every
\* post i, and nothing else (no task fails: _collect_urls raises nothing).
C19_AllTasksJoined ==
    fpc = "returned" =>
        /\ \A i \in 1..Len(posts) : tasks[i] = "done"
        /\ \A i \in 1..Len(posts) :
                \A j \in 1..Len(collect_urls(i, posts[i])) :
                    Cardinality({k \in 1..Len(fimages) :
                        fimages[k] = collect_urls(i, posts[i])[j]}) = 1
        /\ \A k \in 1..Len(fimages) :
                /\ fimages[k].post \in 1..Len(posts)
                /\ fimages[k].entry \in
                        1..Len(collect_urls(fimages[k].post, posts[fimages[k].post]))

\* a fetch returned the candidates of two posts, the later post's first
C19_Witness ==
    /\ fpc = "returned"
    /\ Len(posts) >= 2
    /\ \E k, m \in 1..Len(fimages) : k < m /\ fimages[k].post > fimages[m].post

----------------------------------------------------------------------------
(* Claims about a run of main(), checked under SpecMain and SpecMainLive   *)

\* a step that removes a file or a folder of the download directory
Removes ==
    \E d \in DOMAIN base :
        d \notin DOMAIN base' \/ \E f \in base[d] : f \notin base'[d]

\* a step that places a file in the download directory
Places ==
    \E d \in DOMAIN base' :
        d \notin DOMAIN base \/ \E f \in base'[d] : f \notin base[d]

\* C21: in a run of main the first network request (listing, imgur,
\* download) and the first file placed come after _clear_download_directory
\* has returned, and a step that removes a file belongs to the clearing,
\* before any request was issued.
C21_ClearingComesFirst ==
    [][mpc # "start" =>
          /\ (activity' > activity \/ Places) => mpc \notin {"main", "clear"}
          /\ Removes => (mpc = "clear" /\ activity = 0 /\ activity' = 0)]_vars

\* a run that cleared files earlier runs had left and then placed a file
C21_Witness ==
    /\ removed
    /\ activity > 0
    /\ \E d \in DOMAIN base : base[d] # {}

\* the displays this run serves
Served == {desktops[i] : i \in 1..Len(desktops)}

\* the folder of display d is the same before and after the step
FolderUntouched(d) ==
    /\ d \in DOMAIN base <=> d \in DOMAIN base'
    /\ d \in DOMAIN base => base'[d] = base[d]

\* C22: distinct displays have distinct download directories, and no step
\* of a run of main creates, changes or removes anything in the folder of a
\* display the run does not serve.
C22_OtherDisplaysUntouched ==
    [][/\ \A a, b \in 1..NumDisplays :
              a # b => desktop_directory(a) # desktop_directory(b)
       /\ mpc \notin {"start", "main"} =>
              \A d \in (1..NumDisplays) \ Served : FolderUntouched(d)]_vars

\* the run is over: main returned, or an exception ended it
Ended == mpc \in {"done", "raised", "NameError"}

\* C23: every request of the pipeline is bounded by a timeout, so a run
\* ends even when a remote endpoint accepts a request and never responds.
C23_RunEnds == <>Ended

\* C27: when neither the configuration file nor the command line supplies
\* a background setting, get_desktop_config completes without error and
\* every desktop keeps its default bg_setting 'fill'.
C27_DefaultSettingKept ==
    (mpc \notin {"start", "main"} /\ BG_SETTING = "unset") =>
        /\ mpc # "NameError"
        /\ \A d \in 1..NumDisplays : bg_setting[d] = "fill"

====
